---- MODULE Spec2Model ----
(***************************************************************************)
(* Model of the validation rule engine of ML Studio                        *)
(* (ml_studio/services/validation/rules.py): Rule, its syntactic and       *)
(* semantic subclasses, and RuleSet.                                       *)
(*                                                                         *)
(* A validate call is modelled step by step on an explicit call stack, so  *)
(* the coercion retry is a real nested frame.  Python values are tagged    *)
(* records; the helpers imported from ml_studio.utils.data_operations and  *)
(* ml_studio.services.validation.conditions are not part of the sources    *)
(* at hand and are modelled from the specification.                        *)
(***************************************************************************)
EXTENDS Integers, Sequences, FiniteSets, TLC

VARIABLES rules, ruleset, cond, refattr, stack, exc, ncoerce, hist, threads

vars == <<rules, ruleset, cond, refattr, stack, exc, ncoerce, hist, threads>>

(***************************************************************************)
(* Bounds of the model.                                                    *)
(***************************************************************************)
\* number of Rule instances a RuleSet scenario constructs
MaxRules == 2
\* RuleSet.validate is not started once the aggregate message collection
\* holds this many entries
MaxMessages == 2

(***************************************************************************)
(* Python values.  t is the type tag, n the numeric value (True = 1,       *)
(* False = 0, as in Python), s the text of a string, e the elements of an  *)
(* array-like.                                                             *)
(***************************************************************************)
NoneV == [t |-> "none", n |-> 0, s |-> "", e |-> <<>>]
BoolV(b) == [t |-> "bool", n |-> IF b THEN 1 ELSE 0, s |-> "", e |-> <<>>]
IntV(k) == [t |-> "int", n |-> k, s |-> "", e |-> <<>>]
FloatV(k) == [t |-> "float", n |-> k, s |-> "", e |-> <<>>]
StrV(x) == [t |-> "str", n |-> 0, s |-> x, e |-> <<>>]
ArrV(xs) == [t |-> "arr", n |-> 0, s |-> "", e |-> xs]
\* float('inf'): a float that no integer conversion can hold
InfV == [t |-> "float", n |-> 0, s |-> "inf", e |-> <<>>]
\* an object whose conversions (int(), float(), str()) raise the exception
\* named in s
RaisingV(e) == [t |-> "obj", n |-> 0, s |-> e, e |-> <<>>]
\* reference_value given as the indirection {instance, attribute_name}; the
\* s field holds attribute_name, n = 1 when the 'instance' key is present
DictV(hasInstance, attr) ==
    [t |-> "dict", n |-> IF hasInstance THEN 1 ELSE 0, s |-> attr, e |-> <<>>]

IsNumeric(v) == v.t \in {"bool", "int", "float"}
\* isinstance(v, int): bool is a subclass of int
IsInstanceInt(v) == v.t \in {"bool", "int"}
IsInstanceFloat(v) == v.t = "float"
IsInstanceStr(v) == v.t = "str"
IsInstanceBool(v) == v.t = "bool"

\* ml_studio.utils.data_operations.is_array
is_array(v) == v.t = "arr"

\* Python truthiness, as used by all() and any()
RECURSIVE Truthy(_)
Truthy(v) ==
    CASE v.t = "none" -> FALSE
      [] v.t \in {"bool", "int"} -> v.n # 0
      [] v.t = "float" -> (v.n # 0 \/ v.s = "inf")
      [] v.t = "str" -> v.s # ""
      [] v.t = "arr" -> Len(v.e) > 0
      [] OTHER -> TRUE

\* Python ==
RECURSIVE PyEq(_, _)
PyEq(a, b) ==
    CASE IsNumeric(a) /\ IsNumeric(b) -> (a.n = b.n /\ a.s = b.s)
      [] a.t = "str" /\ b.t = "str" -> a.s = b.s
      [] a.t = "none" /\ b.t = "none" -> TRUE
      [] a.t = "arr" /\ b.t = "arr" ->
            /\ Len(a.e) = Len(b.e)
            /\ \A i \in 1..Len(a.e) : PyEq(a.e[i], b.e[i])
      [] OTHER -> FALSE

\* x in [list of strings]
InStrList(v, strs) == v.t = "str" /\ v.s \in strs

\* Python's ordering is defined between numbers; the model compares nothing
\* else (str < int raises TypeError)
Comparable(a, b) == IsNumeric(a) /\ IsNumeric(b)
PyLt(a, b) == IF a.s = "inf" THEN FALSE ELSE IF b.s = "inf" THEN TRUE ELSE a.n < b.n
PyLe(a, b) == IF b.s = "inf" THEN TRUE ELSE IF a.s = "inf" THEN FALSE ELSE a.n <= b.n

AllTruthy(xs) == \A i \in 1..Len(xs) : Truthy(xs[i])

(***************************************************************************)
(* Helpers of the repository that are outside the sources at hand.         *)
(***************************************************************************)
\* conditions.IsEmpty(value)()
IsEmpty(v) == v.t = "none" \/ (v.t = "str" /\ v.s = "") \/ (v.t = "arr" /\ v.e = <<>>)

\* data_operations.is_homogeneous_array: an array-like whose elements share one type
is_homogeneous_array(v) ==
    /\ is_array(v)
    /\ \A i, j \in 1..Len(v.e) : v.e[i].t = v.e[j].t

\* strings that int() and float() parse, with their value
DigitStrings == {"0", "1", "3"}
StrToNum(x) == CASE x = "0" -> 0 [] x = "1" -> 1 [] x = "3" -> 3 [] OTHER -> 0

\* str(v) of a scalar or a list
PyStr(v) ==
    CASE v.t = "str" -> v
      [] v.t = "none" -> StrV("None")
      [] v.t = "bool" -> StrV(IF v.n = 1 THEN "True" ELSE "False")
      [] v.t = "int" -> StrV(ToString(v.n))
      [] v.t = "float" -> StrV(IF v.s = "inf" THEN "inf" ELSE ToString(v.n) \o ".0")
      [] OTHER -> StrV("[...]")

\* the exception one element raises when converted to the kind, or "none"
ElemCoerceError(x, kind) ==
    CASE x.t = "obj" -> x.s
      [] kind = "S" -> "none"
      [] x.t = "none" -> "TypeError"
      [] x.t = "arr" -> "ValueError"
      [] x.t = "str" /\ x.s \notin DigitStrings -> "ValueError"
      [] kind = "i" /\ x.s = "inf" -> "OverflowError"
      [] OTHER -> "none"

\* one element converted to the kind ("i" integer, "f" float, "n" any number,
\* "S" string)
ElemCoerce(x, kind) ==
    LET num == IF x.t = "str" THEN StrToNum(x.s) ELSE x.n
    IN  CASE kind = "S" -> PyStr(x)
          [] kind = "i" -> IntV(num)
          [] kind = "f" -> IF x.s = "inf" THEN x ELSE FloatV(num)
          [] OTHER -> IF x.t = "float" THEN x ELSE IntV(num)

\* data_operations.coerce_homogeneous_array(value, kind): the array with every
\* element converted, or the first conversion error
coerce_homogeneous_array(v, kind) ==
    LET bad == {i \in 1..Len(v.e) : ElemCoerceError(v.e[i], kind) # "none"}
    IN  IF bad = {}
          THEN [ex |-> "none", value |-> ArrV([i \in 1..Len(v.e) |-> ElemCoerce(v.e[i], kind)])]
          ELSE [ex |-> ElemCoerceError(v.e[CHOOSE i \in bad : \A j \in bad : i <= j], kind),
                value |-> v]

(***************************************************************************)
(* re.compile / re.search on the patterns the model uses.                  *)
(***************************************************************************)
DigitsPattern == "^[0-9]+$"
BadPattern == "["

\* re.compile(reference_value): the exception it raises, or "none"
ReCompileError(ref) ==
    CASE ref.t # "str" -> "TypeError"
      [] ref.s = BadPattern -> "re.error"
      [] OTHER -> "none"

\* re.search(pattern, string) finds a match
ReSearch(p, x) == (p = DigitsPattern /\ x \in DigitStrings \cup {"123"})

(***************************************************************************)
(* The evaluation functions (_get_evaluation_function) of the rule         *)
(* classes.  Each returns [ex, b]: the exception the predicate raises (or  *)
(* "none") and, when it raises nothing, whether the value is invalid.      *)
(***************************************************************************)
Res(b) == [ex |-> "none", b |-> b]
Raise(e) == [ex |-> e, b |-> FALSE]

NpBroadcastable(a, b) == Len(a) = Len(b) \/ Len(a) = 1 \/ Len(b) = 1
NpLen(a, b) == IF Len(a) >= Len(b) THEN Len(a) ELSE Len(b)
NpAt(a, i) == IF Len(a) = 1 THEN a[1] ELSE a[i]
AllNumeric(xs) == \A i \in 1..Len(xs) : IsNumeric(xs[i])

\* np.less_equal / np.less / np.greater_equal / np.greater of two arrays,
\* reduced by all() (quant = "all") or any() (quant = "any")
NpCompare(a, b, op, quant) ==
    IF ~(AllNumeric(a) /\ AllNumeric(b)) THEN Raise("TypeError")
    ELSE IF ~NpBroadcastable(a, b) THEN Raise("ValueError")
    ELSE LET holds(i) ==
                 CASE op = "le" -> PyLe(NpAt(a, i), NpAt(b, i))
                   [] op = "lt" -> PyLt(NpAt(a, i), NpAt(b, i))
                   [] op = "ge" -> PyLe(NpAt(b, i), NpAt(a, i))
                   [] OTHER -> PyLt(NpAt(b, i), NpAt(a, i))
             idx == 1..NpLen(a, b)
         IN  Res(IF quant = "all" THEN ~(\A i \in idx : holds(i))
                                  ELSE ~(\E i \in idx : holds(i)))

\* scalar comparison a <= b (or a < b when exclusive), negated
NotLess(a, b, inclusive) ==
    IF ~Comparable(a, b) THEN Raise("TypeError")
    ELSE Res(~(IF inclusive THEN PyLe(a, b) ELSE PyLt(a, b)))

NotGreater(a, b, inclusive) ==
    IF ~Comparable(a, b) THEN Raise("TypeError")
    ELSE Res(~(IF inclusive THEN PyLe(b, a) ELSE PyLt(b, a)))

EqualRule_is_invalid(r, v) ==
    IF is_array(v) /\ is_array(r.reference_value)
      THEN Res(~PyEq(v, r.reference_value))
    ELSE IF ~is_array(v) /\ is_array(r.reference_value)
      THEN Res(TRUE)
    ELSE Res(~PyEq(v, r.reference_value))

NotEqualRule_is_invalid(r, v) ==
    IF is_array(v) /\ is_array(r.reference_value)
      THEN Res(PyEq(v, r.reference_value))
    ELSE IF ~is_array(v) /\ is_array(r.reference_value)
      THEN Res(FALSE)
    ELSE Res(PyEq(v, r.reference_value))

\* value in np.array(reference_value)
InReference(r, v) ==
    LET elems == IF is_array(r.reference_value) THEN r.reference_value.e
                 ELSE <<r.reference_value>>
    IN  \E i \in 1..Len(elems) : PyEq(v, elems[i])

LessRule_is_invalid(r, v) ==
    LET ref == r.reference_value
    IN  IF is_array(v) /\ is_array(ref)
          THEN NpCompare(v.e, ref.e, IF r.inclusive THEN "le" ELSE "lt", "all")
        ELSE IF ~is_array(v) /\ is_array(ref)
          THEN NotLess(v, BoolV(AllTruthy(ref.e)), r.inclusive)
        ELSE IF is_array(v) /\ ~is_array(ref)
          THEN NotLess(BoolV(AllTruthy(v.e)), ref, r.inclusive)
        ELSE NotLess(v, ref, r.inclusive)

GreaterRule_is_invalid(r, v) ==
    LET ref == r.reference_value
    IN  IF is_array(v) /\ is_array(ref)
          THEN NpCompare(v.e, ref.e, IF r.inclusive THEN "ge" ELSE "gt", "any")
        ELSE IF is_array(v) /\ ~is_array(ref)
          THEN IF \E i \in 1..Len(v.e) : ~Comparable(v.e[i], ref)
                 THEN Raise("TypeError")
                 ELSE LET kept == SelectSeq(v.e,
                                   LAMBDA x : IF r.inclusive THEN PyLe(ref, x) ELSE PyLt(ref, x))
                      IN  Res(~AllTruthy(kept))
        ELSE IF ~is_array(v) /\ is_array(ref)
          THEN NotGreater(v, BoolV(AllTruthy(ref.e)), r.inclusive)
        ELSE NotGreater(v, ref, r.inclusive)

\* variant: the bounds are always excluded, whatever inclusive says
BetweenRule_is_invalid_exclusive(r, v) ==
    LET lo == r.reference_value.e[1]
        hi == r.reference_value.e[2]
    IN  IF ~(Comparable(v, lo) /\ Comparable(v, hi)) THEN Raise("TypeError")
        ELSE Res(PyLe(v, lo) \/ PyLe(hi, v))

BetweenRule_is_invalid(r, v) ==
    LET lo == r.reference_value.e[1]
        hi == r.reference_value.e[2]
    IN  IF ~is_array(r.reference_value) THEN Raise("TypeError")
        ELSE IF Len(r.reference_value.e) < 2 THEN Raise("IndexError")
        ELSE IF ~(Comparable(v, lo) /\ Comparable(v, hi)) THEN Raise("TypeError")
        ELSE IF r.inclusive /\ (PyLt(v, lo) \/ PyLt(hi, v)) THEN Res(TRUE)
        ELSE IF ~r.inclusive /\ (PyLe(v, lo) \/ PyLe(hi, v)) THEN Res(TRUE)
        ELSE Res(FALSE)

RegexRule_is_invalid(r, v) ==
    IF v.t # "str" THEN Raise("TypeError")
    ELSE Res(~ReSearch(r.reference_value.s, v.s))

\* is_invalid(value) of the rule's class
is_invalid(r, v) ==
    CASE r.kind = "NoneRule" -> Res(v.t # "none")
      [] r.kind = "NotNoneRule" -> Res(v.t = "none")
      [] r.kind = "EmptyRule" -> Res(~IsEmpty(v))
      [] r.kind = "NotEmptyRule" -> Res(IsEmpty(v))
      [] r.kind = "BoolRule" -> Res(~IsInstanceBool(v))
      [] r.kind = "IntegerRule" -> Res(~IsInstanceInt(v))
      [] r.kind = "FloatRule" -> Res(~IsInstanceFloat(v))
      [] r.kind = "NumberRule" -> Res(~(IsInstanceInt(v) \/ IsInstanceFloat(v)))
      [] r.kind = "StringRule" -> Res(~IsInstanceStr(v))
      [] r.kind = "EqualRule" -> EqualRule_is_invalid(r, v)
      [] r.kind = "NotEqualRule" -> NotEqualRule_is_invalid(r, v)
      [] r.kind = "AllowedRule" -> Res(~InReference(r, v))
      [] r.kind = "DisAllowedRule" -> Res(InReference(r, v))
      [] r.kind = "LessRule" -> LessRule_is_invalid(r, v)
      [] r.kind = "GreaterRule" -> GreaterRule_is_invalid(r, v)
      [] r.kind = "BetweenRule" -> BetweenRule_is_invalid(r, v)
      [] OTHER -> RegexRule_is_invalid(r, v)


(***************************************************************************)
(* Coercion (_coerce) of the rule classes.  Each returns [ex, coerced,     *)
(* value]: the exception that leaves _coerce (or "none"), the coercion     *)
(* flag and the value handed back.                                         *)
(***************************************************************************)
Coerced(flag, v) == [ex |-> "none", coerced |-> flag, value |-> v]
CoerceRaises(e, v) == [ex |-> e, coerced |-> FALSE, value |-> v]

NoneRule_coerce(v) ==
    IF InStrList(v, {"None", "none"}) THEN Coerced(TRUE, NoneV) ELSE Coerced(FALSE, v)

true_list == {"True", "true", "yes", "y", "1"}
false_list == {"False", "false", "no", "n", "0"}

\* the four list comprehensions BoolRule._coerce applies to an array, in order
BoolRule_coerce_elem(x) ==
    LET a == IF InStrList(x, true_list) THEN BoolV(TRUE) ELSE x
        b == IF InStrList(a, false_list) THEN BoolV(FALSE) ELSE a
        c == IF IsNumeric(b) /\ b.n = 0 /\ b.s = "" THEN BoolV(TRUE) ELSE b
        d == IF IsNumeric(c) /\ (c.n > 0 \/ c.s = "inf") THEN BoolV(FALSE) ELSE c
    IN  d

\* variant: a scalar number is converted as the array branch converts its
\* elements (0 to True, a positive number to False)
BoolRule_coerce_as_elements(v) ==
    IF is_array(v)
      THEN Coerced(TRUE, ArrV([i \in 1..Len(v.e) |-> BoolRule_coerce_elem(v.e[i])]))
      ELSE Coerced(BoolRule_coerce_elem(v) # v, BoolRule_coerce_elem(v))

BoolRule_coerce(v) ==
    IF IsInstanceStr(v)
      THEN IF v.s \in true_list THEN Coerced(TRUE, BoolV(TRUE))
           ELSE IF v.s \in false_list THEN Coerced(TRUE, BoolV(FALSE))
           ELSE Coerced(FALSE, v)
    ELSE IF IsNumeric(v)
      THEN IF v.n = 0 /\ v.s = "" THEN Coerced(TRUE, BoolV(FALSE))
           ELSE Coerced(TRUE, BoolV(TRUE))
    ELSE IF is_array(v)
      THEN Coerced(TRUE, ArrV([i \in 1..Len(v.e) |-> BoolRule_coerce_elem(v.e[i])]))
    ELSE Coerced(FALSE, v)

\* variant: the overflow error is re-raised like the other two
IntegerRule_coerce_overflow_raised(v) ==
    IF is_array(v)
      THEN LET h == coerce_homogeneous_array(v, "i")
           IN  IF h.ex # "none" THEN CoerceRaises(h.ex, v)
               ELSE Coerced(TRUE, h.value)
      ELSE Coerced(FALSE, v)

IntegerRule_coerce(v) ==
    IF is_array(v)
      THEN LET h == coerce_homogeneous_array(v, "i")
           IN  IF h.ex \in {"ValueError", "TypeError"} THEN CoerceRaises(h.ex, v)
               ELSE IF h.ex = "OverflowError" THEN Coerced(FALSE, v)
               ELSE Coerced(TRUE, h.value)
      ELSE Coerced(FALSE, v)

\* FloatRule._coerce (kind "f") and NumberRule._coerce (kind "n"): every
\* error of the helper is printed, none is raised
LoggingCoerce(v, kind) ==
    IF is_array(v)
      THEN LET h == coerce_homogeneous_array(v, kind)
           IN  IF h.ex # "none" THEN Coerced(FALSE, v) ELSE Coerced(TRUE, h.value)
      ELSE Coerced(FALSE, v)

StringRule_coerce(v) ==
    IF is_homogeneous_array(v)
      THEN LET h == coerce_homogeneous_array(v, "S")
           IN  IF h.ex # "none" THEN Coerced(FALSE, v) ELSE Coerced(TRUE, h.value)
      ELSE Coerced(TRUE, PyStr(v))

\* _coerce(value) of the rule's class
coerce(r, v) ==
    CASE r.kind \in {"NoneRule", "NotNoneRule"} -> NoneRule_coerce(v)
      [] r.kind \in {"EmptyRule", "NotEmptyRule"} -> Coerced(FALSE, v)
      [] r.kind = "BoolRule" -> BoolRule_coerce(v)
      [] r.kind = "IntegerRule" -> IntegerRule_coerce(v)
      [] r.kind = "FloatRule" -> LoggingCoerce(v, "f")
      [] r.kind = "NumberRule" -> LoggingCoerce(v, "n")
      [] r.kind = "StringRule" -> StringRule_coerce(v)
      [] OTHER -> Coerced(FALSE, v)

(***************************************************************************)
(* Rule kinds.                                                             *)
(***************************************************************************)
SyntacticKinds == {"NoneRule", "NotNoneRule", "EmptyRule", "NotEmptyRule", "BoolRule",
                   "IntegerRule", "FloatRule", "NumberRule", "StringRule"}
SemanticKinds == {"EqualRule", "NotEqualRule", "AllowedRule", "DisAllowedRule",
                  "LessRule", "GreaterRule", "BetweenRule", "RegexRule"}
\* the classes that override validate without the element-wise recursion
OwnValidateKinds == {"EqualRule", "NotEqualRule", "LessRule", "GreaterRule"}

(***************************************************************************)
(* _validate_params: the exception it raises for the value, or "none".     *)
(***************************************************************************)
\* variant: the array_ok check is left out
Rule_validate_params_arrays_pass(r, v) ==
    IF ~r.has_attr THEN "AttributeError" ELSE "none"

Rule_validate_params(r, v) ==
    IF ~r.has_attr THEN "AttributeError"
    ELSE IF ~r.array_ok /\ is_array(v) THEN "TypeError"
    ELSE "none"

SemanticRule_validate_params(r, v) ==
    IF Rule_validate_params(r, v) # "none" THEN Rule_validate_params(r, v)
    ELSE IF r.reference_value.t = "dict" /\ r.reference_value.n = 0 THEN "KeyError"
    ELSE IF r.reference_value.t = "dict" /\ r.reference_value.s = "" THEN "KeyError"
    ELSE "none"

LessRule_validate_params(r, v) ==
    IF SemanticRule_validate_params(r, v) # "none" THEN SemanticRule_validate_params(r, v)
    ELSE IF is_array(r.reference_value) /\ ~is_array(v) THEN "ValueError"
    ELSE "none"

\* variant: the pattern is not compiled in the parameter check
RegexRule_validate_params_unchecked(r, v) == SemanticRule_validate_params(r, v)

RegexRule_validate_params(r, v) ==
    IF SemanticRule_validate_params(r, v) # "none" THEN SemanticRule_validate_params(r, v)
    ELSE ReCompileError(r.reference_value)

\* variant: an indirection still to be resolved is not checked as a pair
BetweenRule_validate_params_defers_indirection(r, v) ==
    LET ref == r.reference_value
    IN  IF SemanticRule_validate_params(r, v) # "none"
          THEN SemanticRule_validate_params(r, v)
        ELSE IF ref.t = "dict" THEN "none"
        ELSE IF ~is_array(ref) THEN "TypeError"
        ELSE IF Len(ref.e) # 2 THEN "ValueError"
        ELSE IF ~(ref.e[1].t \in {"bool", "int", "float"})
                \/ ~(ref.e[2].t \in {"bool", "int", "float"}) THEN "ValueError"
        ELSE "none"

BetweenRule_validate_params(r, v) ==
    LET ref == r.reference_value
    IN  IF SemanticRule_validate_params(r, v) # "none"
          THEN SemanticRule_validate_params(r, v)
        ELSE IF ~is_array(ref) THEN "TypeError"
        ELSE IF Len(ref.e) # 2 THEN "ValueError"
        ELSE IF ~(ref.e[1].t \in {"bool", "int", "float"})
                \/ ~(ref.e[2].t \in {"bool", "int", "float"}) THEN "ValueError"
        ELSE "none"

validate_params(r, v) ==
    CASE r.kind \in SyntacticKinds -> Rule_validate_params(r, v)
      [] r.kind \in {"LessRule", "GreaterRule"} -> LessRule_validate_params(r, v)
      [] r.kind = "RegexRule" -> RegexRule_validate_params(r, v)
      [] r.kind = "BetweenRule" -> BetweenRule_validate_params(r, v)
      [] OTHER -> SemanticRule_validate_params(r, v)

(***************************************************************************)
(* compile()                                                               *)
(***************************************************************************)
\* Rule.compile: the transient state is reset (the conditions' own compile
\* changes nothing of the rule)
\* variant: compile leaves the invalid values of the previous pass in place
Rule_compile_keeps_values(r) ==
    [r EXCEPT !.is_valid = TRUE, !.invalid_messages = <<>>]

Rule_compile(r) ==
    [r EXCEPT !.is_valid = TRUE, !.invalid_values = <<>>, !.invalid_messages = <<>>]

\* the id that stands, in a gate's list, for an element that is not a
\* Condition
NotCallable == 0

\* the exception compile() raises, or "none": condition.compile() on a list
\* element that is not a Condition (it has no compile), then
\* getattr(instance, attribute_name) in SemanticRule.compile when a key of
\* the indirection is missing
compile_error(r) ==
    CASE \E i \in 1..Len(r.when_any.cs) : r.when_any.cs[i] = NotCallable -> "AttributeError"
      [] \E i \in 1..Len(r.when_all.cs) : r.when_all.cs[i] = NotCallable -> "AttributeError"
      [] r.kind \notin SemanticKinds -> "none"
      [] r.reference_value.t = "dict" /\ r.reference_value.n = 0 -> "AttributeError"
      [] r.reference_value.t = "dict" /\ r.reference_value.s = "" -> "TypeError"
      [] OTHER -> "none"

\* SemanticRule.compile: an indirection is replaced by the attribute's value
SemanticRule_compile(r, attr) ==
    LET c == Rule_compile(r)
    IN  IF c.reference_value.t = "dict" /\ compile_error(r) = "none"
          THEN [c EXCEPT !.reference_value = attr]
          ELSE c

\* variant: validate does not compile before evaluating
compile_skipped(r, attr) == r

compile(r, attr) ==
    IF r.kind \in SemanticKinds THEN SemanticRule_compile(r, attr) ELSE Rule_compile(r)

(***************************************************************************)
(* Conditions.  A condition is an id; cond[c] is what calling it returns   *)
(* now.  A gate that was never set is the record with set = FALSE.         *)
(***************************************************************************)
CondIds == {1, 2}
NoGate == [set |-> FALSE, cs |-> <<>>]
Gate(cs) == [set |-> TRUE, cs |-> cs]

\* variant: the 'when' gate is never consulted
evaluate_when_ignored(r, cv) == TRUE

evaluate_when(r, cv) ==
    IF r.when.set THEN cv[r.when.cs[1]] ELSE TRUE

evaluate_when_all(r, cv) ==
    IF r.when_all.set /\ r.when_all.cs # <<>>
      THEN \A i \in 1..Len(r.when_all.cs) : cv[r.when_all.cs[i]]
      ELSE TRUE

\* variant: when_any asks for every condition, as when_all does
evaluate_when_any_all(r, cv) ==
    IF r.when_any.set /\ r.when_any.cs # <<>>
      THEN \A i \in 1..Len(r.when_any.cs) : cv[r.when_any.cs[i]]
      ELSE TRUE

evaluate_when_any(r, cv) ==
    IF r.when_any.set /\ r.when_any.cs # <<>>
      THEN \E i \in 1..Len(r.when_any.cs) : cv[r.when_any.cs[i]]
      ELSE TRUE

evaluate_conditions(r, cv) ==
    evaluate_when(r, cv) /\ evaluate_when_all(r, cv) /\ evaluate_when_any(r, cv)

\* a Condition object, as a value handed to a setter
CondV(c) == [t |-> "cond", n |-> c, s |-> "", e |-> <<>>]
\* the list a setter stores, element by element
gate_of(arg) ==
    Gate([i \in 1..Len(arg.e) |-> IF arg.e[i].t = "cond" THEN arg.e[i].n ELSE NotCallable])

\* when(condition): [ex, rule]
Rule_when(r, arg) ==
    IF arg.t = "cond"
      THEN [ex |-> "none", rule |-> [r EXCEPT !.when = Gate(<<arg.n>>)]]
      ELSE [ex |-> "TypeError", rule |-> r]

\* variant: the new conditions are added to the ones attached before
Rule_when_all_additive(r, arg) ==
    IF is_array(arg)
      THEN [ex |-> "none", rule |-> [r EXCEPT !.when_all = Gate(@.cs \o gate_of(arg).cs)]]
      ELSE [ex |-> "TypeError", rule |-> r]

\* when_all(conditions): [ex, rule]
Rule_when_all(r, arg) ==
    IF is_array(arg)
      THEN [ex |-> "none", rule |-> [r EXCEPT !.when_all = gate_of(arg)]]
      ELSE [ex |-> "TypeError", rule |-> r]

\* when_any(conditions): [ex, rule]
Rule_when_any(r, arg) ==
    IF is_array(arg)
      THEN [ex |-> "none", rule |-> [r EXCEPT !.when_any = gate_of(arg)]]
      ELSE [ex |-> "TypeError", rule |-> r]

(***************************************************************************)
(* The evaluation pass.                                                    *)
(***************************************************************************)
\* validate_recursive(value, is_invalid): the leaves found invalid, appended
\* to acc in traversal order; a predicate that raises ends the traversal
RECURSIVE validate_recursive(_, _, _)
validate_recursive(r, v, acc) ==
    IF acc.ex # "none" THEN acc
    ELSE IF is_array(v)
      THEN IF v.e = <<>> THEN acc
           ELSE validate_recursive(r, ArrV(Tail(v.e)),
                                   validate_recursive(r, Head(v.e), acc))
    ELSE LET res == is_invalid(r, v)
         IN  IF res.ex # "none" THEN [acc EXCEPT !.ex = res.ex]
             ELSE IF res.b THEN [acc EXCEPT !.invalid = Append(@, v)]
             ELSE acc

\* the overriding validate of EqualRule, NotEqualRule, LessRule, GreaterRule
\* applies the predicate to the value as a whole
validate_whole(r, v, acc) ==
    LET res == is_invalid(r, v)
    IN  IF res.ex # "none" THEN [acc EXCEPT !.ex = res.ex]
        ELSE IF res.b THEN [acc EXCEPT !.invalid = Append(@, v)]
        ELSE acc

\* variant: every class applies the predicate to the value as a whole
evaluate_without_recursion(r, v) ==
    validate_whole(r, v, [invalid |-> r.invalid_values, ex |-> "none"])

evaluate(r, v) ==
    LET acc == [invalid |-> r.invalid_values, ex |-> "none"]
    IN  IF r.kind \in OwnValidateKinds THEN validate_whole(r, v, acc)
        ELSE validate_recursive(r, v, acc)

\* _error_message(): the rendered text names the rule and embeds a copy of
\* the invalid values
error_message(r) == [rule |-> r.kind, invalid |-> r.invalid_values]

\* the invalid_messages property
invalid_messages(r) == r.invalid_values


(***************************************************************************)
(* State.                                                                  *)
(*   rules    the Rule instances, by id                                    *)
(*   ruleset  the RuleSet: _operator, _rules (ids), _is_valid,             *)
(*            _invalid_messages                                            *)
(*   cond     what each condition evaluates to now                         *)
(*   refattr  the value of the attribute an indirection refers to          *)
(*   stack    the call stack of the validate call in progress              *)
(*   exc      the exception that ended the last operation, if any          *)
(*   ncoerce  _coerce calls made since the last non-nested Rule.validate   *)
(*   hist     a record of the last operation, for statements about calls:  *)
(*            r, value: the rule and argument of the last caller's         *)
(*            rule.validate (r = 0: another operation); stable: that call  *)
(*            has ended and nothing happened since; on: the call before it *)
(*            was the same call, with is_valid and invalid_values as that  *)
(*            call left them; params: what the call's own                  *)
(*            _validate_params raised; printed: the last operation was     *)
(*            print_rule on that rule (0: it was not), with is_valid as    *)
(*            the rule had it before                                       *)
(*   threads  the host's threads when it runs two: args, the call each     *)
(*            thread makes; cur, the thread that runs; parked, the stack,  *)
(*            exception and coercion count of the thread that waits;       *)
(*            preempted, a thread has been switched out inside its call    *)
(***************************************************************************)
\* _validated_value before the first pass assigns it
Unset == [t |-> "unset", n |-> 0, s |-> "", e |-> <<>>]

\* no setter has been called on the rule yet
NoSetterCall == [kind |-> "", arg |-> NoneV, ok |-> TRUE, before |-> <<NoGate, NoGate, NoGate>>]

\* Rule.__init__ (and the subclasses' __init__); last_set records the last
\* call of when / when_all / when_any on the rule
NewRule(kind, array_ok, has_attr, reference_value, inclusive, when, when_all, when_any) ==
    [kind |-> kind, array_ok |-> array_ok, has_attr |-> has_attr,
     reference_value |-> reference_value, reference_given |-> reference_value,
     inclusive |-> inclusive,
     when |-> when, when_all |-> when_all, when_any |-> when_any,
     is_valid |-> TRUE, invalid_messages |-> <<>>, invalid_values |-> <<>>,
     validated_value |-> Unset, last_set |-> NoSetterCall]

\* RuleSet.__init__
NewRuleSet(operator, ids) ==
    [operator |-> operator, rules |-> ids, is_valid |-> TRUE, invalid_messages |-> <<>>]

NoExc == [type |-> "none", op |-> "", payload |-> <<>>]
Exc(type, op) == [type |-> type, op |-> op, payload |-> <<>>]

\* the host runs one thread: nothing is parked
NoThreads ==
    [args |-> <<>>, cur |-> 1, preempted |-> FALSE,
     parked |-> [stack |-> <<>>, exc |-> NoExc, ncoerce |-> 0]]

HistNone == [r |-> 0, value |-> NoneV, stable |-> FALSE, on |-> FALSE,
             is_valid |-> TRUE, invalid_values |-> <<>>, params |-> "", printed |-> 0]

\* variant: every call works on the fields of the first instance, as if the
\* transient state were kept on the class
RuleFrame_shared_state(r, v, coerced) ==
    [fn |-> "Rule.validate", r |-> 1, pc |-> "params", value |-> v,
     coerced |-> coerced, i |-> 0, results |-> <<>>, calls |-> <<>>, base |-> 0]

RuleFrame(r, v, coerced) ==
    [fn |-> "Rule.validate", r |-> r, pc |-> "params", value |-> v,
     coerced |-> coerced, i |-> 0, results |-> <<>>, calls |-> <<>>, base |-> 0]

\* i is the position of the loop, results the local list; calls records the
\* rules the loop has called so far and base how many entries the RuleSet's
\* message collection held when the call began
RuleSetFrame(v) ==
    [fn |-> "RuleSet.validate", r |-> 0, pc |-> "loop", value |-> v,
     coerced |-> FALSE, i |-> 1, results |-> <<>>, calls |-> <<>>,
     base |-> Len(ruleset.invalid_messages)]

Idle == stack = <<>>
Top == stack[Len(stack)]
SetTop(f) == [stack EXCEPT ![Len(stack)] = f]
Goto(pc) == SetTop([Top EXCEPT !.pc = pc])
InRule(pc) == ~Idle /\ Top.fn = "Rule.validate" /\ Top.pc = pc
InRuleSet(pc) == ~Idle /\ Top.fn = "RuleSet.validate" /\ Top.pc = pc

\* an exception leaves every frame on the stack
Unwind(type) ==
    /\ stack' = <<>>
    /\ exc' = Exc(type, "validate")
    /\ hist' = [hist EXCEPT !.stable = (hist.r # 0),
                            !.params = IF Len(stack) = 1 /\ Top.pc = "params" THEN type ELSE @]

(***************************************************************************)
(* Rule.validate(value, coerced=False), one step per statement group.      *)
(***************************************************************************)
\* variant: compile() runs on entry, before the parameter check
Validate_compile_first(r, v) ==
    /\ Idle
    /\ stack' = <<RuleFrame(r, v, FALSE)>>
    /\ exc' = NoExc
    /\ ncoerce' = 0
    /\ rules' = [rules EXCEPT ![r] = compile(@, refattr)]
    /\ hist' = [HistNone EXCEPT !.r = r, !.value = v]
    /\ UNCHANGED <<ruleset, cond, refattr, threads>>

\* a caller invokes rule.validate(value)
Validate(r, v) ==
    /\ Idle
    /\ stack' = <<RuleFrame(r, v, FALSE)>>
    /\ exc' = NoExc
    /\ ncoerce' = 0
    /\ LET same == hist.stable /\ hist.r = r /\ hist.value = v
       IN  hist' = [r |-> r, value |-> v, stable |-> FALSE, on |-> same,
                    is_valid |-> IF same THEN rules[r].is_valid ELSE TRUE,
                    invalid_values |-> IF same THEN rules[r].invalid_values ELSE <<>>,
                    params |-> "", printed |-> 0]
    /\ UNCHANGED <<rules, ruleset, cond, refattr, threads>>

\* self._validate_params(value)
StepParams ==
    /\ InRule("params")
    /\ LET e == validate_params(rules[Top.r], Top.value)
       IN  IF e # "none"
             THEN Unwind(e)
             ELSE /\ stack' = Goto("compile")
                  /\ hist' = IF Len(stack) = 1 THEN [hist EXCEPT !.params = "none"] ELSE hist
                  /\ UNCHANGED exc
    /\ UNCHANGED <<rules, ruleset, cond, refattr, ncoerce, threads>>

\* self.compile()
StepCompile ==
    /\ InRule("compile")
    /\ rules' = [rules EXCEPT ![Top.r] = compile(@, refattr)]
    /\ IF compile_error(rules[Top.r]) # "none"
         THEN Unwind(compile_error(rules[Top.r]))
         ELSE stack' = Goto("conditions") /\ UNCHANGED <<exc, hist>>
    /\ UNCHANGED <<ruleset, cond, refattr, ncoerce, threads>>

\* if self._evaluate_conditions(): ... else: the rule does not apply
StepConditions ==
    /\ InRule("conditions")
    /\ IF evaluate_conditions(rules[Top.r], cond)
         THEN /\ stack' = Goto("evaluate")
              /\ UNCHANGED rules
         ELSE /\ rules' = [rules EXCEPT ![Top.r].validated_value = Top.value,
                                        ![Top.r].is_valid = TRUE]
              /\ stack' = Goto("return")
    /\ UNCHANGED <<ruleset, cond, refattr, exc, ncoerce, hist, threads>>

\* is_invalid = self._get_evaluation_function(value); the traversal that
\* appends to self._invalid_values
StepEvaluate ==
    /\ InRule("evaluate")
    /\ LET acc == evaluate(rules[Top.r], Top.value)
       IN  /\ rules' = [rules EXCEPT ![Top.r].invalid_values = acc.invalid]
           /\ IF acc.ex # "none"
                THEN Unwind(acc.ex)
                ELSE stack' = Goto("save") /\ UNCHANGED <<exc, hist>>
    /\ UNCHANGED <<ruleset, cond, refattr, ncoerce, threads>>

\* variant: a message is appended only when the pass found invalid values
save_results_message_if_invalid(r, v) ==
    [r EXCEPT !.validated_value = v,
              !.invalid_messages = IF r.invalid_values = <<>> THEN @
                                   ELSE Append(@, error_message(r)),
              !.is_valid = (r.invalid_values = <<>>)]

\* the rule's state after "Save results of the evaluation"
save_results(r, v) ==
    [r EXCEPT !.validated_value = v,
              !.invalid_messages = Append(@, error_message(r)),
              !.is_valid = (r.invalid_values = <<>>)]

\* if not self._is_valid and not coerced
wants_coercion(r, coerced) == ~r.is_valid /\ ~coerced

StepSave ==
    /\ InRule("save")
    /\ LET saved == save_results(rules[Top.r], Top.value)
       IN  /\ rules' = [rules EXCEPT ![Top.r] = saved]
           /\ stack' = Goto(IF wants_coercion(saved, Top.coerced) THEN "coerce" ELSE "return")
    /\ UNCHANGED <<ruleset, cond, refattr, exc, ncoerce, hist, threads>>

\* the frame of self.validate(self._validated_value, coerced)
\* variant: the retry does not tell the nested call that the value was coerced
retry_frame_unflagged(r, c) == RuleFrame(r, c.value, FALSE)

retry_frame(r, c) == RuleFrame(r, c.value, c.coerced)

\* coerced, self._validated_value = self._coerce(value); if coerced: validate again
StepCoerce ==
    /\ InRule("coerce")
    /\ ncoerce' = ncoerce + 1
    /\ LET c == coerce(rules[Top.r], Top.value)
       IN  IF c.ex # "none"
             THEN /\ Unwind(c.ex)
                  /\ UNCHANGED rules
             ELSE /\ rules' = [rules EXCEPT ![Top.r].validated_value = c.value]
                  /\ stack' = IF c.coerced
                                THEN Append(Goto("return"), retry_frame(Top.r, c))
                                ELSE Goto("return")
                  /\ UNCHANGED <<exc, hist>>
    /\ UNCHANGED <<ruleset, cond, refattr, threads>>

\* the call returns to its caller
Return ==
    /\ ~Idle
    /\ Top.pc = "return"
    /\ stack' = SubSeq(stack, 1, Len(stack) - 1)
    /\ hist' = IF Len(stack) = 1 THEN [hist EXCEPT !.stable = (hist.r # 0)] ELSE hist
    /\ UNCHANGED <<rules, ruleset, cond, refattr, exc, ncoerce, threads>>

(***************************************************************************)
(* Other operations on a Rule.                                             *)
(***************************************************************************)
\* rule.compile() called directly
Compile(r) ==
    /\ Idle
    /\ rules' = [rules EXCEPT ![r] = compile(@, refattr)]
    /\ exc' = IF compile_error(rules[r]) = "none" THEN NoExc
              ELSE Exc(compile_error(rules[r]), "compile")
    /\ hist' = HistNone
    /\ UNCHANGED <<ruleset, cond, refattr, stack, ncoerce, threads>>

\* variant: print_rule only prints
print_rule_without_compile(r, attr) == r

\* rule.print_rule(): compile, then print
print_rule(r, attr) == compile(r, attr)

PrintRule(r) ==
    /\ Idle
    /\ rules' = [rules EXCEPT ![r] = print_rule(@, refattr)]
    /\ exc' = IF compile_error(rules[r]) = "none" THEN NoExc
              ELSE Exc(compile_error(rules[r]), "print_rule")
    /\ hist' = [HistNone EXCEPT !.printed = r, !.is_valid = rules[r].is_valid]
    /\ UNCHANGED <<ruleset, cond, refattr, stack, ncoerce, threads>>

\* rule.raise_invalid_val(): raise ValueError(messages)
raise_invalid_val(r) ==
    [type |-> "ValueError", op |-> "raise_invalid_val", payload |-> r.invalid_messages]

RaiseInvalidVal(r) ==
    /\ Idle
    /\ exc' = raise_invalid_val(rules[r])
    /\ hist' = HistNone
    /\ UNCHANGED <<rules, ruleset, cond, refattr, stack, ncoerce, threads>>

\* rule.when(arg) / rule.when_all(arg) / rule.when_any(arg) called by the host
SetGate(r, kind, arg) ==
    /\ Idle
    /\ LET res == CASE kind = "when" -> Rule_when(rules[r], arg)
                     [] kind = "when_all" -> Rule_when_all(rules[r], arg)
                     [] OTHER -> Rule_when_any(rules[r], arg)
           gates == <<rules[r].when, rules[r].when_all, rules[r].when_any>>
       IN  /\ rules' = [rules EXCEPT ![r] =
                          [res.rule EXCEPT !.last_set = [kind |-> kind, arg |-> arg,
                                                         ok |-> (res.ex = "none"),
                                                         before |-> gates]]]
           /\ exc' = IF res.ex = "none" THEN NoExc ELSE Exc(res.ex, kind)
    /\ hist' = HistNone
    /\ UNCHANGED <<ruleset, cond, refattr, stack, ncoerce, threads>>

(***************************************************************************)
(* The host's side: a condition's operands or the referenced attribute     *)
(* change between two operations.                                          *)
(***************************************************************************)
UsedConds(r) ==
    {r.when.cs[i] : i \in 1..Len(r.when.cs)}
      \cup {r.when_all.cs[i] : i \in 1..Len(r.when_all.cs)}
      \cup {r.when_any.cs[i] : i \in 1..Len(r.when_any.cs)}

SetCond(c, b) ==
    /\ Idle
    /\ \E r \in DOMAIN rules : c \in UsedConds(rules[r])
    /\ cond[c] # b
    /\ cond' = [cond EXCEPT ![c] = b]
    /\ hist' = HistNone
    /\ UNCHANGED <<rules, ruleset, refattr, stack, exc, ncoerce, threads>>

SetRefAttr(v) ==
    /\ Idle
    /\ \E r \in DOMAIN rules : rules[r].reference_given.t = "dict"
    /\ refattr # v
    /\ refattr' = v
    /\ hist' = HistNone
    /\ UNCHANGED <<rules, ruleset, cond, stack, exc, ncoerce, threads>>


(***************************************************************************)
(* RuleSet.                                                                *)
(***************************************************************************)
\* the operator setter accepts exactly these
ValidOperators == {"or", "and"}

\* any(results) under 'or', all(results) otherwise
\* variant: any() and all() exchanged
combine_swapped(operator, results) ==
    IF operator = "or"
      THEN \A i \in 1..Len(results) : results[i]
      ELSE \E i \in 1..Len(results) : results[i]

combine(operator, results) ==
    IF operator = "or"
      THEN \E i \in 1..Len(results) : results[i]
      ELSE \A i \in 1..Len(results) : results[i]

\* variant: the call starts from an empty message collection
RuleSetValidate_clears_messages(v) ==
    /\ Idle
    /\ Len(ruleset.invalid_messages) < MaxMessages
    /\ ruleset' = [ruleset EXCEPT !.invalid_messages = <<>>]
    /\ stack' = <<[RuleSetFrame(v) EXCEPT !.base = 0]>>
    /\ exc' = NoExc
    /\ hist' = HistNone
    /\ UNCHANGED <<rules, cond, refattr, ncoerce, threads>>

\* a caller invokes ruleset.validate(value)
RuleSetValidate(v) ==
    /\ Idle
    /\ Len(ruleset.invalid_messages) < MaxMessages
    /\ stack' = <<RuleSetFrame(v)>>
    /\ exc' = NoExc
    /\ hist' = HistNone
    /\ UNCHANGED <<rules, ruleset, cond, refattr, ncoerce, threads>>

\* for rule in self._rules: the loop goes on while rules are left
\* variant: the loop stops as soon as the results decide the outcome
more_rules_short_circuit(rs, f) ==
    /\ f.i <= Len(rs.rules)
    /\ ~\E j \in 1..Len(f.results) : f.results[j] = (rs.operator = "or")

more_rules(rs, f) == f.i <= Len(rs.rules)

\* for rule in self._rules: rule.validate(value) ...; after the loop the
\* results are combined
RuleSetLoop ==
    /\ InRuleSet("loop")
    /\ IF more_rules(ruleset, Top)
         THEN /\ stack' = Append(SetTop([Top EXCEPT !.pc = "collect",
                                                    !.calls = Append(@, ruleset.rules[Top.i])]),
                                 RuleFrame(ruleset.rules[Top.i], Top.value, FALSE))
              /\ ncoerce' = 0
              /\ UNCHANGED ruleset
         ELSE /\ ruleset' = [ruleset EXCEPT !.is_valid = combine(ruleset.operator, Top.results)]
              /\ stack' = Goto("return")
              /\ UNCHANGED ncoerce
    /\ UNCHANGED <<rules, cond, refattr, exc, hist, threads>>

\* results.append(rule.is_valid); a failing rule's invalid_messages are kept
RuleSetCollect ==
    /\ InRuleSet("collect")
    /\ LET rule == rules[ruleset.rules[Top.i]]
       IN  /\ stack' = SetTop([Top EXCEPT !.pc = "loop", !.i = @ + 1,
                                          !.results = Append(@, rule.is_valid)])
           /\ ruleset' = IF ~rule.is_valid
                           THEN [ruleset EXCEPT !.invalid_messages =
                                                    Append(@, invalid_messages(rule))]
                           ELSE ruleset
    /\ UNCHANGED <<rules, cond, refattr, exc, ncoerce, hist, threads>>

\* ruleset.operator = value
SetOperator(value) ==
    /\ Idle
    /\ IF value \in ValidOperators
         THEN ruleset' = [ruleset EXCEPT !.operator = value] /\ exc' = NoExc
         ELSE UNCHANGED ruleset /\ exc' = Exc("ValueError", "operator")
    /\ hist' = HistNone
    /\ UNCHANGED <<rules, cond, refattr, stack, ncoerce, threads>>

\* ruleset.compile(): every owned rule is compiled
RuleSetCompile ==
    /\ Idle
    /\ rules' = [r \in DOMAIN rules |->
                    IF \E i \in 1..Len(ruleset.rules) : ruleset.rules[i] = r
                      THEN compile(rules[r], refattr) ELSE rules[r]]
    /\ exc' = NoExc
    /\ hist' = HistNone
    /\ UNCHANGED <<ruleset, cond, refattr, stack, ncoerce, threads>>

(***************************************************************************)
(* The values, references and rules the model draws from.                  *)
(***************************************************************************)
Values ==
    { NoneV, BoolV(TRUE), IntV(5), IntV(11),
      StrV("yes"), StrV("None"), StrV("abc"), StrV("3"),
      ArrV(<<IntV(1), StrV("3")>>),
      ArrV(<<IntV(11), StrV("abc")>>),
      ArrV(<<IntV(5), IntV(5)>>),
      ArrV(<<StrV("yes"), ArrV(<<IntV(0), NoneV>>)>>),
      ArrV(<<InfV>>) }

\* what the attribute behind an indirection may hold
RefAttrValues == { IntV(5), IntV(11), ArrV(<<IntV(0), IntV(10)>>) }

Indirection == DictV(TRUE, "x")

References(kind) ==
    CASE kind \in SyntacticKinds -> {NoneV}
      [] kind \in {"EqualRule", "NotEqualRule"} ->
            {IntV(5), ArrV(<<IntV(5), IntV(5)>>), Indirection, DictV(FALSE, "x")}
      [] kind \in {"AllowedRule", "DisAllowedRule"} ->
            {ArrV(<<IntV(0), IntV(5)>>), Indirection}
      [] kind \in {"LessRule", "GreaterRule"} ->
            {IntV(5), ArrV(<<IntV(5), IntV(11)>>), Indirection}
      [] kind = "BetweenRule" ->
            {ArrV(<<IntV(0), IntV(10)>>), IntV(5), Indirection}
      [] OTHER -> {StrV(DigitsPattern), StrV(BadPattern), Indirection}

HasInclusive(kind) == kind \in {"LessRule", "GreaterRule", "BetweenRule"}

\* the gates attached after construction
GateChoices ==
    { <<NoGate, NoGate, NoGate>>,
      <<Gate(<<1>>), NoGate, NoGate>> }

\* a rule as constructed, with its gates attached
RuleChoices ==
    { NewRule(k, a, TRUE, ref, inc, g[1], g[2], g[3]) :
        k \in SyntacticKinds \cup SemanticKinds, a \in BOOLEAN,
        ref \in UNION {References(kk) : kk \in SyntacticKinds \cup SemanticKinds},
        inc \in BOOLEAN, g \in GateChoices }

WellFormedChoice(r) ==
    /\ r.reference_value \in References(r.kind)
    /\ (~HasInclusive(r.kind) => r.inclusive)

\* a rule bound to an attribute its host object does not have
UnboundRule == NewRule("NoneRule", FALSE, FALSE, NoneV, TRUE, NoGate, NoGate, NoGate)

InitRules == {r \in RuleChoices : WellFormedChoice(r)} \cup {UnboundRule}

\* conditions no gate uses are left true
InitConds(rs) ==
    {cv \in [CondIds -> BOOLEAN] :
        \A c \in CondIds : (\A r \in DOMAIN rs : c \notin UsedConds(rs[r])) => cv[c]}

InitEnv ==
    /\ stack = <<>>
    /\ exc = NoExc
    /\ ncoerce = 0
    /\ hist = HistNone
    /\ threads = NoThreads
    /\ cond \in InitConds(rules)
    /\ refattr \in IF \E r \in DOMAIN rules : rules[r].reference_given.t = "dict"
                     THEN RefAttrValues ELSE {IntV(5)}

\* one Rule, of any class
Init ==
    /\ \E r \in InitRules : rules = <<r>>
    /\ ruleset = NewRuleSet("or", <<>>)
    /\ InitEnv

RuleSteps ==
    \/ StepParams
    \/ StepCompile
    \/ StepConditions
    \/ StepEvaluate
    \/ StepSave
    \/ StepCoerce
    \/ Return

Next ==
    \/ \E r \in DOMAIN rules, v \in Values : Validate(r, v)
    \/ RuleSteps
    \/ \E r \in DOMAIN rules : Compile(r)
    \/ \E r \in DOMAIN rules : PrintRule(r)
    \/ \E r \in DOMAIN rules : RaiseInvalidVal(r)
    \/ \E c \in CondIds, b \in BOOLEAN : SetCond(c, b)
    \/ \E v \in RefAttrValues : SetRefAttr(v)

Spec == Init /\ [][Next]_vars

\* callers that only validate, one call after the other; a call in
\* progress keeps running
NextCalls ==
    \/ \E r \in DOMAIN rules, v \in Values : Validate(r, v)
    \/ RuleSteps

FairSpec == Init /\ [][NextCalls]_vars /\ WF_vars(RuleSteps)

(***************************************************************************)
(* A rule whose gates the host sets and replaces between validations.      *)
(***************************************************************************)
\* what callers pass to when, when_all and when_any
SetterArgs ==
    { CondV(1), CondV(2), IntV(5), ArrV(<<>>),
      ArrV(<<CondV(1), CondV(2)>>), ArrV(<<CondV(2), IntV(5)>>) }

InitGates ==
    /\ rules = <<NewRule("NoneRule", FALSE, TRUE, NoneV, TRUE, NoGate, NoGate, NoGate)>>
    /\ ruleset = NewRuleSet("or", <<>>)
    /\ stack = <<>>
    /\ exc = NoExc
    /\ ncoerce = 0
    /\ hist = HistNone
    /\ threads = NoThreads
    /\ cond \in [CondIds -> BOOLEAN]
    /\ refattr = IntV(5)

NextGates ==
    \/ \E r \in DOMAIN rules, k \in {"when", "when_all", "when_any"}, a \in SetterArgs :
          SetGate(r, k, a)
    \/ \E r \in DOMAIN rules, v \in {NoneV, IntV(5)} : Validate(r, v)
    \/ RuleSteps
    \/ \E c \in CondIds, b \in BOOLEAN : SetCond(c, b)

SpecGates == InitGates /\ [][NextGates]_vars

(***************************************************************************)
(* A BetweenRule or a BoolRule validating scalars: numbers at, inside and  *)
(* outside the bounds, the strings BoolRule._coerce knows and one it does  *)
(* not.                                                                    *)
(***************************************************************************)
InitScalar ==
    /\ \E r \in { NewRule("BetweenRule", FALSE, TRUE, ref, inc, NoGate, NoGate, NoGate) :
                     ref \in {ArrV(<<IntV(0), IntV(10)>>), ArrV(<<IntV(5), FloatV(5)>>)},
                     inc \in BOOLEAN }
                 \cup {NewRule("BoolRule", FALSE, TRUE, NoneV, TRUE, NoGate, NoGate, NoGate)} :
          rules = <<r>>
    /\ ruleset = NewRuleSet("or", <<>>)
    /\ stack = <<>>
    /\ exc = NoExc
    /\ ncoerce = 0
    /\ hist = HistNone
    /\ threads = NoThreads
    /\ cond = [c \in CondIds |-> TRUE]
    /\ refattr = IntV(5)

NextScalar ==
    \/ \E r \in DOMAIN rules,
           v \in { IntV(-1), IntV(0), IntV(5), IntV(10), IntV(11), FloatV(0), FloatV(10), InfV,
                   BoolV(TRUE), BoolV(FALSE), StrV("yes"), StrV("1"), StrV("no"), StrV("0"),
                   StrV("abc"), NoneV } : Validate(r, v)
    \/ RuleSteps

SpecScalar == InitScalar /\ [][NextScalar]_vars

(***************************************************************************)
(* The four rules whose _coerce calls coerce_homogeneous_array, validated  *)
(* on arrays the helper converts and on arrays whose conversion fails      *)
(* with each of the three errors _coerce catches.                          *)
(***************************************************************************)
InitCoerce ==
    /\ \E k \in {"IntegerRule", "FloatRule", "NumberRule", "StringRule"} :
          rules = <<NewRule(k, TRUE, TRUE, NoneV, TRUE, NoGate, NoGate, NoGate)>>
    /\ ruleset = NewRuleSet("or", <<>>)
    /\ stack = <<>>
    /\ exc = NoExc
    /\ ncoerce = 0
    /\ hist = HistNone
    /\ threads = NoThreads
    /\ cond = [c \in CondIds |-> TRUE]
    /\ refattr = IntV(5)

NextCoerce ==
    \/ \E r \in DOMAIN rules,
           v \in { ArrV(<<RaisingV("OverflowError")>>), ArrV(<<RaisingV("ValueError")>>),
                   ArrV(<<RaisingV("TypeError")>>),
                   ArrV(<<IntV(1), RaisingV("OverflowError")>>),
                   ArrV(<<InfV>>), ArrV(<<StrV("abc")>>), ArrV(<<NoneV>>),
                   ArrV(<<StrV("3"), StrV("1")>>), ArrV(<<IntV(1), StrV("3")>>),
                   ArrV(<<IntV(1), IntV(3)>>), IntV(5), StrV("3") } : Validate(r, v)
    \/ RuleSteps

SpecCoerce == InitCoerce /\ [][NextCoerce]_vars


(***************************************************************************)
(* A RuleSet over up to MaxRules rules.                                    *)
(***************************************************************************)
\* what callers pass as operator to RuleSet(...) and to the setter
OperatorInputs == {"or", "and", "xor"}

RuleSetRules ==
    { NewRule("NoneRule", TRUE, TRUE, NoneV, TRUE, NoGate, NoGate, NoGate),
      NewRule("BoolRule", FALSE, TRUE, NoneV, TRUE, NoGate, NoGate, NoGate),
      NewRule("IntegerRule", TRUE, TRUE, NoneV, TRUE, NoGate, NoGate, NoGate) }

RuleSetValues ==
    { NoneV, BoolV(TRUE), IntV(11), StrV("yes"), ArrV(<<IntV(1), StrV("3")>>) }

InitRS ==
    /\ \E n \in 0..MaxRules :
          /\ rules \in [1..n -> RuleSetRules]
          /\ \E op \in OperatorInputs : ruleset = NewRuleSet(op, [i \in 1..n |-> i])
    /\ InitEnv

NextRS ==
    \/ \E v \in RuleSetValues : RuleSetValidate(v)
    \/ RuleSetLoop
    \/ RuleSetCollect
    \/ RuleSteps
    \/ \E op \in OperatorInputs : SetOperator(op)
    \/ RuleSetCompile

SpecRS == InitRS /\ [][NextRS]_vars


(***************************************************************************)
(* Two threads of the host, each in one Rule.validate call.  The           *)
(* interpreter can switch threads between any two statements of a call;    *)
(* a call's frames, its pending exception and its locals belong to the     *)
(* thread, the Rule's fields belong to the instance.                       *)
(***************************************************************************)
\* the interpreter parks the running thread and resumes the other one
Switch ==
    /\ threads.args # <<>>
    /\ threads.parked.stack # <<>>
    /\ stack' = threads.parked.stack
    /\ exc' = threads.parked.exc
    /\ ncoerce' = threads.parked.ncoerce
    /\ threads' = [threads EXCEPT
                     !.cur = IF @ = 1 THEN 2 ELSE 1,
                     !.parked = [stack |-> stack, exc |-> exc, ncoerce |-> ncoerce],
                     !.preempted = @ \/ (stack # <<>> /\ ~(Len(stack) = 1 /\ Top.pc = "params"))]
    /\ UNCHANGED <<rules, ruleset, cond, refattr, hist>>

Threads == {1, 2}

\* the rules a thread validates on: those of the RuleSet runs and one gated
\* by a condition object of its own
ThreadRules(i) ==
    RuleSetRules \cup
      { NewRule("IntegerRule", TRUE, TRUE, NoneV, TRUE, Gate(<<i>>), NoGate, NoGate) }

\* thread 1 calls validate on the first rule, thread 2 on the last one: the
\* same instance when there is one rule, another instance when there are two
InitThreads ==
    /\ \E n \in Threads :
          /\ \E r1 \in ThreadRules(1), r2 \in ThreadRules(n) :
                rules = [i \in 1..n |-> IF i = 1 THEN r1 ELSE r2]
          /\ \E v1, v2 \in RuleSetValues :
                /\ stack = <<RuleFrame(1, v1, FALSE)>>
                /\ threads = [args |-> <<[r |-> 1, v |-> v1], [r |-> n, v |-> v2]>>,
                              cur |-> 1, preempted |-> FALSE,
                              parked |-> [stack |-> <<RuleFrame(n, v2, FALSE)>>,
                                          exc |-> NoExc, ncoerce |-> 0]]
    /\ ruleset = NewRuleSet("or", <<>>)
    /\ exc = NoExc
    /\ ncoerce = 0
    /\ hist = HistNone
    /\ cond \in InitConds(rules)
    /\ refattr = IntV(5)

NextThreads ==
    \/ RuleSteps
    \/ Switch

SpecThreads == InitThreads /\ [][NextThreads]_vars


(***************************************************************************)
(* Properties.                                                             *)
(***************************************************************************)
\* the last operation was a caller's validate on rule r; it has returned or
\* raised, and nothing has happened since
Ended(r) == Idle /\ hist.stable /\ hist.r = r
\* ... and it returned normally
Returned(r) == Ended(r) /\ exc.type = "none"

WhenIsFalse(r) == rules[r].when.set /\ ~cond[rules[r].when.cs[1]]

\* what one pass over value v records, starting from an empty list
FreshPass(r, v) == evaluate([rules[r] EXCEPT !.invalid_values = <<>>], v)

\* C1 as stated: whatever the value and array_ok, a validate call on a rule
\* whose 'when' condition is false completes with is_valid = true and no
\* invalid values.
C1_WhenFalseAlwaysCompletes ==
    \A r \in DOMAIN rules :
        (Ended(r) /\ WhenIsFalse(r)) =>
            /\ exc.type = "none"
            /\ rules[r].is_valid
            /\ rules[r].invalid_values = <<>>

\* C1 amended: when the call passes the parameter check (_validate_params
\* raises nothing for the value) and the rule's 'when' condition is false,
\* validate completes with is_valid = true, no invalid values, and the raw
\* value stored as it is.
C1_WhenFalseIsValid ==
    \A r \in DOMAIN rules :
        (Ended(r) /\ WhenIsFalse(r) /\ hist.params = "none") =>
            /\ exc.type = "none"
            /\ rules[r].is_valid
            /\ rules[r].invalid_values = <<>>
            /\ rules[r].validated_value = hist.value

\* a call on a gated-off rule has ended, for a value the rule's check rejects
C1_Witness ==
    \E r \in DOMAIN rules :
        /\ Ended(r) /\ WhenIsFalse(r) /\ hist.params = "none"
        /\ FreshPass(r, hist.value).ex = "none"
        /\ FreshPass(r, hist.value).invalid # <<>>

\* C2: validate(v) called twice in a row on one rule, with nothing changed in
\* between, leaves the same is_valid and the same invalid-values list the
\* second time as the first.
C2_RepeatedValidateAgrees ==
    \A r \in DOMAIN rules :
        (Ended(r) /\ hist.on) =>
            /\ rules[r].is_valid = hist.is_valid
            /\ rules[r].invalid_values = hist.invalid_values

\* the second of two equal calls has ended; it went through the coercion
\* retry and still found invalid values
C2_Witness ==
    \E r \in DOMAIN rules :
        /\ Returned(r) /\ hist.on
        /\ ncoerce = 1
        /\ rules[r].validated_value # hist.value
        /\ rules[r].invalid_values # <<>>

\* the rules a RuleSet owns report valid / some rule reports valid
AllRulesValid == \A i \in 1..Len(ruleset.rules) : rules[ruleset.rules[i]].is_valid
SomeRuleValid == \E i \in 1..Len(ruleset.rules) : rules[ruleset.rules[i]].is_valid

\* C3: when RuleSet.validate(value) has validated its rules and combined the
\* results, is_valid under 'and' is true iff every owned rule reports valid,
\* and under 'or' iff at least one does (the empty list included).
C3_CombinatorSemantics ==
    InRuleSet("return") =>
        /\ (ruleset.operator = "and" => (ruleset.is_valid <=> AllRulesValid))
        /\ (ruleset.operator = "or" => (ruleset.is_valid <=> SomeRuleValid))
        /\ \A i \in 1..Len(ruleset.rules) :
              rules[ruleset.rules[i]].validated_value # Unset

\* an 'or' RuleSet of two rules has combined one valid and one invalid result
C3_Witness ==
    /\ InRuleSet("return")
    /\ ruleset.operator = "or"
    /\ Len(ruleset.rules) = 2
    /\ SomeRuleValid /\ ~AllRulesValid
    /\ ruleset.is_valid

\* C4: in every reachable state the combinator of a RuleSet is 'or' or 'and'.
C4_OperatorRestricted == ruleset.operator \in ValidOperators

RuleFrames == {i \in 1..Len(stack) : stack[i].fn = "Rule.validate"}

\* the self-recursion of validate is at most two deep, _coerce is called at
\* most once per caller's validate, only by the outer call, and the nested
\* call runs with coerced = true
BoundedRetry ==
    /\ Cardinality(RuleFrames) <= 2
    /\ ncoerce <= 1
    /\ \A i \in RuleFrames :
          /\ (i - 1 \in RuleFrames) => stack[i].coerced
          /\ stack[i].pc = "coerce" => (~stack[i].coerced /\ i - 1 \notin RuleFrames)
          /\ (i + 1 \in RuleFrames) => stack[i].pc = "return"

\* C6: every caller's validate terminates, with at most one coercion attempt
\* and at most one nested re-validation (recursion depth at most 2).
C6_BoundedRetryAndTermination == []BoundedRetry /\ (~Idle ~> Idle)

\* the nested re-validation of a coerced value is in progress
C6_Witness ==
    /\ Len(stack) = 2
    /\ RuleFrames = {1, 2}
    /\ stack[2].coerced
    /\ ncoerce = 1

\* C7: between operations, is_valid is true exactly when the invalid-values
\* list is empty.
C7_ValidIffNoInvalidValues ==
    Idle => \A r \in DOMAIN rules :
                rules[r].is_valid <=> (rules[r].invalid_values = <<>>)

\* C8: when the call's preconditions hold (its parameter check passes),
\* validate returns normally; only raise_invalid_val raises.
C8_FailuresAreNotRaised ==
    \A r \in DOMAIN rules :
        (Ended(r) /\ hist.params = "none") => exc.type = "none"

\* C9: after validate, the invalid_messages accessor yields the list of
\* rendered messages that validation recorded, the list raise_invalid_val
\* carries.
C9_AccessorYieldsMessages ==
    \A r \in DOMAIN rules :
        Returned(r) =>
            /\ invalid_messages(rules[r]) = rules[r].invalid_messages
            /\ invalid_messages(rules[r]) = raise_invalid_val(rules[r]).payload

\* C10: a rule constructed with an indirection compares, in every validate
\* call, against the value the referenced attribute holds at that time.
C10_ReferenceIsLateBound ==
    \A r \in DOMAIN rules :
        (Returned(r) /\ rules[r].reference_given.t = "dict"
                     /\ evaluate_conditions(rules[r], cond)) =>
            rules[r].reference_value = refattr

\* C11: validate fails with an attribute error when the host object lacks
\* the target attribute, and with a type error when array_ok is false and
\* the value is array-like; the call is still at its parameter check then:
\* no compile, no condition, no predicate and no coercion has run.
C11_PreconditionsCheckedFirst ==
    /\ \A r \in DOMAIN rules :
          (Ended(r) /\ ~rules[r].has_attr) =>
              (exc.type = "AttributeError" /\ hist.params = "AttributeError")
    /\ \A r \in DOMAIN rules :
          (Ended(r) /\ rules[r].has_attr /\ ~rules[r].array_ok /\ is_array(hist.value)) =>
              (exc.type = "TypeError" /\ hist.params = "TypeError")
    /\ (~Idle /\ stack[1].fn = "Rule.validate"
             /\ (~rules[stack[1].r].has_attr
                    \/ (~rules[stack[1].r].array_ok /\ is_array(stack[1].value)))) =>
          (Len(stack) = 1 /\ stack[1].pc = "params" /\ ncoerce = 0)

\* a call with an array-like value on a rule with array_ok false, gated off
\* by a false 'when', has ended with the type error of the parameter check
C11_Witness ==
    \E r \in DOMAIN rules :
        /\ Ended(r) /\ WhenIsFalse(r)
        /\ rules[r].has_attr /\ ~rules[r].array_ok /\ is_array(hist.value)
        /\ exc.type = "TypeError"

\* the three gates of rule r as the claim reads them: no 'when' attached or
\* it is true, every when_all condition true, no when_any condition attached
\* or at least one true
GateOpen(r) ==
    /\ (rules[r].when.set => cond[rules[r].when.cs[1]])
    /\ \A i \in 1..Len(rules[r].when_all.cs) : cond[rules[r].when_all.cs[i]]
    /\ (Len(rules[r].when_any.cs) = 0
          \/ \E i \in 1..Len(rules[r].when_any.cs) : cond[rules[r].when_any.cs[i]])

GateOfKind(gates, kind) ==
    CASE kind = "when" -> gates[1] [] kind = "when_all" -> gates[2] [] OTHER -> gates[3]

Gates(r) == <<rules[r].when, rules[r].when_all, rules[r].when_any>>

\* C19: when(c) fails with a type error unless c is a Condition; when_all(cs)
\* and when_any(cs) fail with a type error unless cs is an array-like all of
\* whose elements are Conditions; a failed call leaves the gates as they were.
C19_SettersTypeCheck ==
    \A r \in DOMAIN rules :
        LET call == rules[r].last_set
            well_typed ==
                IF call.kind = "when" THEN call.arg.t = "cond"
                ELSE /\ is_array(call.arg)
                     /\ \A i \in 1..Len(call.arg.e) : call.arg.e[i].t = "cond"
        IN  call.kind # "" =>
              /\ call.ok <=> well_typed
              /\ ~call.ok => Gates(r) = call.before

\* C20: a call of when, when_all or when_any that is accepted replaces the
\* gate of its kind by its argument, whatever was attached before, and
\* leaves the gates of the other two kinds as they were.
C20_SetterReplaces ==
    \A r \in DOMAIN rules :
        LET call == rules[r].last_set
        IN  (call.kind # "" /\ call.ok) =>
              /\ GateOfKind(Gates(r), call.kind) =
                    IF call.kind = "when" THEN Gate(<<call.arg.n>>) ELSE gate_of(call.arg)
              /\ \A k \in {"when", "when_all", "when_any"} \ {call.kind} :
                    GateOfKind(Gates(r), k) = GateOfKind(call.before, k)

\* when_all was called a second time, with other conditions than the ones
\* attached, on a rule that has a 'when' and a when_any gate
C20_Witness ==
    \E r \in DOMAIN rules :
        LET call == rules[r].last_set
        IN  /\ call.kind = "when_all" /\ call.ok
            /\ call.before[2].set /\ call.before[2].cs # <<>>
            /\ call.before[2] # rules[r].when_all
            /\ rules[r].when.set /\ rules[r].when_any.set

\* C13 as stated: no RegexRule exists whose pattern does not parse, since
\* constructing one fails.
C13_BadPatternFailsConstruction ==
    \A r \in DOMAIN rules :
        (rules[r].kind = "RegexRule" /\ rules[r].reference_given.t = "str") =>
            ReCompileError(rules[r].reference_given) = "none"

\* C13 amended: a RegexRule with an unparsable pattern is constructed without
\* error; every validate call on it whose value passes the base checks fails
\* in the parameter check with the error of re.compile.
C13_BadPatternFailsParamCheck ==
    \A r \in DOMAIN rules :
        (/\ Ended(r)
         /\ rules[r].kind = "RegexRule" /\ rules[r].reference_given = StrV(BadPattern)
         /\ rules[r].has_attr
         /\ (rules[r].array_ok \/ ~is_array(hist.value))) =>
            (exc.type = "re.error" /\ hist.params = "re.error")

\* a validate call with a string on a RegexRule with an unparsable pattern
\* has ended
C13_Witness ==
    \E r \in DOMAIN rules :
        /\ Ended(r)
        /\ rules[r].kind = "RegexRule" /\ rules[r].reference_given = StrV(BadPattern)
        /\ hist.value = StrV("3")
        /\ exc.type = "re.error"

C15_BoolCoercion ==
    \A r \in DOMAIN rules :
        (Ended(r) /\ rules[r].kind = "BoolRule") =>
            LET v == hist.value
                number == v.t \in {"int", "float"}
                to_true == (v.t = "str" /\ v.s \in true_list)
                              \/ (number /\ (v.n # 0 \/ v.s = "inf"))
                to_false == (v.t = "str" /\ v.s \in false_list)
                               \/ (number /\ v.n = 0 /\ v.s # "inf")
            IN  /\ (to_true \/ to_false) =>
                      /\ exc.type = "none"
                      /\ ncoerce = 1
                      /\ rules[r].is_valid
                      /\ rules[r].invalid_values = <<>>
                      /\ rules[r].validated_value = BoolV(to_true)
                /\ (v.t = "str" /\ ~to_true /\ ~to_false) =>
                      /\ exc.type = "none"
                      /\ ~rules[r].is_valid
                      /\ rules[r].invalid_values = <<v>>
                      /\ rules[r].validated_value = v

\* BoolRule.validate(0) has returned with False as the validated value
C15_Witness ==
    \E r \in DOMAIN rules :
        /\ Returned(r) /\ rules[r].kind = "BoolRule"
        /\ hist.value = IntV(0)
        /\ rules[r].validated_value = BoolV(FALSE)
        /\ rules[r].is_valid

\* the owned rules that report invalid, in the order of the list
FailingRules == SelectSeq(ruleset.rules, LAMBDA id : ~rules[id].is_valid)

\* C16: RuleSet.validate(value) calls validate(value) on every owned rule
\* exactly once, in the order of the list, whatever the earlier rules
\* reported, and the entries it collects for the failing rules are in that
\* order.
C16_EveryRuleOnceInOrder ==
    /\ (Len(stack) >= 2 /\ stack[1].fn = "RuleSet.validate") =>
          /\ stack[1].calls = SubSeq(ruleset.rules, 1, stack[1].i)
          /\ stack[2].r = ruleset.rules[stack[1].i]
          /\ stack[2].value = stack[1].value
          /\ Len(stack[1].results) = stack[1].i - 1
    /\ InRuleSet("return") =>
          /\ Top.calls = ruleset.rules
          /\ Len(Top.results) = Len(ruleset.rules)
          /\ SubSeq(ruleset.invalid_messages, Top.base + 1, Len(ruleset.invalid_messages))
                = [j \in 1..Len(FailingRules) |-> invalid_messages(rules[FailingRules[j]])]

\* an 'or' RuleSet whose first rule passed has gone on to its second rule,
\* which failed, and has collected that rule's entry
C16_Witness ==
    /\ InRuleSet("return")
    /\ ruleset.operator = "or"
    /\ Top.results = <<TRUE, FALSE>>
    /\ Top.calls = <<1, 2>>
    /\ Len(ruleset.invalid_messages) = Top.base + 1

\* the stack and the pending exception of thread t
ThreadStack(t) == IF threads.cur = t THEN stack ELSE threads.parked.stack
ThreadExc(t) == IF threads.cur = t THEN exc ELSE threads.parked.exc
\* thread t's call has returned or raised
ThreadDone(t) == ThreadStack(t) = <<>>
BothDone == threads.args # <<>> /\ ThreadDone(1) /\ ThreadDone(2)
DistinctInstances == threads.args # <<>> /\ threads.args[1].r # threads.args[2].r

\* what validate(v) alone on rule r ends with: the exception it raises, the
\* value it keeps, the invalid values of its last pass and the verdict
Outcome(ex, value, invalid) ==
    [ex |-> ex, validated_value |-> value, invalid_values |-> invalid,
     is_valid |-> (invalid = <<>>)]

Sequential(r, v) ==
    LET fresh == [r EXCEPT !.invalid_values = <<>>]
        first == evaluate(fresh, v)
        c == coerce(r, v)
        second == evaluate(fresh, c.value)
    IN  IF validate_params(r, v) # "none" THEN Outcome(validate_params(r, v), v, <<>>)
        ELSE IF compile_error(r) # "none" THEN Outcome(compile_error(r), v, <<>>)
        ELSE IF ~evaluate_conditions(r, cond) THEN Outcome("none", v, <<>>)
        ELSE IF first.ex # "none" THEN Outcome(first.ex, v, first.invalid)
        ELSE IF first.invalid = <<>> THEN Outcome("none", v, <<>>)
        ELSE IF c.ex # "none" THEN Outcome(c.ex, v, first.invalid)
        ELSE IF ~c.coerced THEN Outcome("none", c.value, first.invalid)
        ELSE IF validate_params(r, c.value) # "none"
               THEN Outcome(validate_params(r, c.value), c.value, <<>>)
        ELSE Outcome(second.ex, c.value, second.invalid)

\* the rule's transient state is what the call alone leaves
LeftAs(r, seq) ==
    /\ rules[r].validated_value = seq.validated_value
    /\ rules[r].invalid_values = seq.invalid_values
    /\ rules[r].is_valid = seq.is_valid

\* C17: when two threads validate on two distinct Rule instances, however
\* their statements interleave, each call ends as it would alone: it raises
\* what the call alone raises and, when it returns, its rule holds the
\* validated value, the invalid values and the verdict the call alone gives.
C17_DistinctInstancesIsolated ==
    DistinctInstances =>
      \A t \in Threads :
         ThreadDone(t) =>
           LET seq == Sequential(rules[threads.args[t].r], threads.args[t].v)
           IN  /\ ThreadExc(t).type = seq.ex
               /\ seq.ex = "none" => LeftAs(threads.args[t].r, seq)

\* both calls on distinct instances have returned after a switch inside a
\* call, one of them having kept invalid values and the other a coerced value
C17_Witness ==
    /\ DistinctInstances
    /\ BothDone
    /\ threads.preempted
    /\ ThreadExc(1).type = "none" /\ ThreadExc(2).type = "none"
    /\ rules[threads.args[1].r].invalid_values # <<>>
    /\ rules[threads.args[2].r].validated_value # threads.args[2].v

SameInstance == threads.args # <<>> /\ threads.args[1].r = threads.args[2].r
BothReturned == BothDone /\ ThreadExc(1).type = "none" /\ ThreadExc(2).type = "none"
\* the shared rule is left as one of the two calls alone leaves it, which is
\* what either sequential order ends with
SequentialState ==
    \E t \in Threads :
       LeftAs(threads.args[t].r, Sequential(rules[threads.args[t].r], threads.args[t].v))

\* C18: two validate calls on the same Rule instance can end in a state that
\* neither sequential order produces, and only by interleaving: when both
\* calls have returned and the rule is left as neither call alone leaves
\* it, a thread was switched out inside its call.
C18_SameInstanceNotReentrant ==
    (SameInstance /\ BothReturned /\ ~SequentialState) => threads.preempted

\* both calls on the same instance have returned and the invalid values hold
\* the values of both calls, which neither order produces
C18_Witness ==
    /\ SameInstance
    /\ BothReturned
    /\ ~SequentialState
    /\ threads.args[1].v # threads.args[2].v
    /\ \E i, j \in 1..Len(rules[1].invalid_values) :
          /\ rules[1].invalid_values[i] = threads.args[1].v
          /\ rules[1].invalid_values[j] = threads.args[2].v

\* the scalars of a value in traversal order, nested arrays flattened
RECURSIVE Leaves(_)
Leaves(v) ==
    IF ~is_array(v) THEN <<v>>
    ELSE IF v.e = <<>> THEN <<>>
    ELSE Leaves(Head(v.e)) \o Leaves(ArrV(Tail(v.e)))

\* the leaves the rule's predicate finds invalid, in traversal order
InvalidLeaves(r, v) == SelectSeq(Leaves(v), LAMBDA x : is_invalid(r, x).b)

\* a pass over an array-like value has just ended without raising
ArrayPassDone == InRule("save") /\ is_array(Top.value)

BoolScalarCoerced(x) ==
    IF IsInstanceStr(x) \/ IsNumeric(x) THEN BoolRule_coerce(x).value ELSE x

\* C22: when a BoolRule coerces an array-like value, every element becomes
\* what the scalar coercion makes of it: a true-string true, a false-string
\* false, the number 0 false, a nonzero number true, anything else unchanged.
C22_BoolArrayCoercionAsScalar ==
    \A r \in DOMAIN rules :
       ( /\ Returned(r)
         /\ rules[r].kind = "BoolRule"
         /\ evaluate_conditions(rules[r], cond)
         /\ is_array(hist.value)
         /\ FreshPass(r, hist.value).invalid # <<>> )
       => rules[r].validated_value =
             ArrV([i \in 1..Len(hist.value.e) |-> BoolScalarCoerced(hist.value.e[i])])

\* C23: validate of a scalar number on a LessRule or GreaterRule whose
\* reference is array-like completes, recording valid or invalid, and does
\* not end with an error.
C23_ScalarAgainstArrayReference ==
    \A r \in DOMAIN rules :
       ( /\ Ended(r)
         /\ rules[r].kind \in {"LessRule", "GreaterRule"}
         /\ is_array(rules[r].reference_value)
         /\ IsNumeric(hist.value) )
       => exc.type = "none"

\* a validate call on rule r has returned, the rule applied, and value and
\* reference are numbers (scalars = TRUE) or arrays of numbers of one length
ComparedPair(r, scalars) ==
    LET v == hist.value
        ref == rules[r].reference_value
    IN  /\ Returned(r)
        /\ evaluate_conditions(rules[r], cond)
        /\ IF scalars
             THEN IsNumeric(v) /\ IsNumeric(ref)
             ELSE /\ is_array(v) /\ is_array(ref)
                  /\ Len(v.e) = Len(ref.e)
                  /\ AllNumeric(v.e) /\ AllNumeric(ref.e)

\* value[i] >= reference[i] (or > when exclusive) fails at some position
SomePositionBelow(r) ==
    \E i \in 1..Len(hist.value.e) :
       ~(IF rules[r].inclusive
           THEN PyLe(rules[r].reference_value.e[i], hist.value.e[i])
           ELSE PyLt(rules[r].reference_value.e[i], hist.value.e[i]))

\* value[i] <= reference[i] (or < when exclusive) fails at some position
SomePositionAbove(r) ==
    \E i \in 1..Len(hist.value.e) :
       ~(IF rules[r].inclusive
           THEN PyLe(hist.value.e[i], rules[r].reference_value.e[i])
           ELSE PyLt(hist.value.e[i], rules[r].reference_value.e[i]))

\* C24: GreaterRule mirrors LessRule.  For two scalars it is invalid iff
\* value < reference (<= when exclusive); for two arrays of equal length it
\* is invalid iff some position fails value[i] >= reference[i] (> when
\* exclusive), as LessRule is invalid iff some position fails
\* value[i] <= reference[i] (< when exclusive).
C24_GreaterMirrorsLess ==
    \A r \in DOMAIN rules :
       /\ (rules[r].kind = "GreaterRule" /\ ComparedPair(r, TRUE)) =>
             (~rules[r].is_valid <=>
                IF rules[r].inclusive
                  THEN PyLt(hist.value, rules[r].reference_value)
                  ELSE PyLe(hist.value, rules[r].reference_value))
       /\ (rules[r].kind = "GreaterRule" /\ ComparedPair(r, FALSE)) =>
             (~rules[r].is_valid <=> SomePositionBelow(r))
       /\ (rules[r].kind = "LessRule" /\ ComparedPair(r, FALSE)) =>
             (~rules[r].is_valid <=> SomePositionAbove(r))

\* C25 as stated: the messages accumulate across calls, so after the second
\* of two applicable validate calls in a row the message list holds the
\* messages of both.
C25_MessagesAccumulate ==
    \A r \in DOMAIN rules :
       (Returned(r) /\ hist.on /\ evaluate_conditions(rules[r], cond)) =>
          Len(rules[r].invalid_messages) >= 2

\* C25, amended: an applicable pass appends one rendered message even when
\* it ends valid, but the messages do not accumulate: compile() at the
\* start of every validate call, the nested retry included, empties the
\* list, so after a call that returned the list holds exactly the one
\* message of the final pass, and none when the rule did not apply.
C25_OneMessagePerCall ==
    \A r \in DOMAIN rules :
       Returned(r) =>
          rules[r].invalid_messages =
             IF evaluate_conditions(rules[r], cond)
               THEN <<[rule |-> rules[r].kind, invalid |-> rules[r].invalid_values]>>
               ELSE <<>>

\* the second of two equal calls in a row has returned valid after a
\* coercion retry, and holds one message
C25_Witness ==
    \E r \in DOMAIN rules :
       /\ Returned(r) /\ hist.on
       /\ ncoerce = 1
       /\ rules[r].is_valid
       /\ Len(rules[r].invalid_messages) = 1

\* the exception coerce_homogeneous_array raises when the rule's _coerce
\* hands it value v, or "none"; "none" too when _coerce does not call it
HelperError(r, v) ==
    CASE r.kind = "IntegerRule" /\ is_array(v) -> coerce_homogeneous_array(v, "i").ex
      [] r.kind = "FloatRule" /\ is_array(v) -> coerce_homogeneous_array(v, "f").ex
      [] r.kind = "NumberRule" /\ is_array(v) -> coerce_homogeneous_array(v, "n").ex
      [] r.kind = "StringRule" /\ is_homogeneous_array(v) -> coerce_homogeneous_array(v, "S").ex
      [] OTHER -> "none"

\* the error of the helper that leaves IntegerRule._coerce
RaisedByCoerce(r, v) ==
    IF r.kind = "IntegerRule" /\ HelperError(r, v) \in {"ValueError", "TypeError"}
      THEN HelperError(r, v) ELSE "none"

\* C26: when the array coercion helper fails in the _coerce of IntegerRule,
\* FloatRule, NumberRule or StringRule, a value error or type error leaves
\* validate on IntegerRule only; in every other case (overflow on all four,
\* any error on the other three) validate returns, no re-validation takes
\* place, and the rule keeps is_valid = false, the invalid values of the
\* first pass and the original value as validated value.
C26_CoercionFailures ==
    /\ \A r \in DOMAIN rules :
          ( /\ Ended(r)
            /\ hist.params = "none"
            /\ FreshPass(r, hist.value).invalid # <<>>
            /\ HelperError(rules[r], hist.value) # "none" )
          => /\ exc.type = RaisedByCoerce(rules[r], hist.value)
             /\ exc.type = "none" =>
                   /\ ~rules[r].is_valid
                   /\ rules[r].invalid_values = FreshPass(r, hist.value).invalid
                   /\ rules[r].validated_value = hist.value
    /\ \A i \in RuleFrames :
          i >= 2 => HelperError(rules[stack[1].r], stack[1].value) = "none"

\* a FloatRule or StringRule call has returned after the helper failed with
\* an overflow error
C26_Witness ==
    \E r \in DOMAIN rules :
       /\ Returned(r)
       /\ rules[r].kind \in {"FloatRule", "StringRule"}
       /\ ncoerce = 1
       /\ HelperError(rules[r], hist.value) = "OverflowError"

\* C27: print_rule() runs compile(): whatever the preceding validate
\* recorded, after print_rule() the rule's is_valid is true and its
\* invalid-values and message lists are empty, so the failure is erased.
C27_PrintRuleResets ==
    \A r \in DOMAIN rules :
       hist.printed = r =>
          /\ rules[r].is_valid
          /\ rules[r].invalid_values = <<>>
          /\ rules[r].invalid_messages = <<>>

\* print_rule was called on a rule that had just failed a validation
C27_Witness ==
    \E r \in DOMAIN rules :
       /\ hist.printed = r
       /\ ~hist.is_valid
       /\ rules[r].validated_value # Unset
       /\ rules[r].is_valid
       /\ exc = NoExc

\* C28: a validate call that fails a precondition raises before compile()
\* runs: neither the step that enters the call nor the step in which its
\* parameter check raises changes any field of the rule, so is_valid, the
\* invalid values, the messages and the validated value stay as the
\* previous operation left them.
C28_FailedPreconditionKeepsState ==
    [][( \/ (Idle /\ ~Idle' /\ stack'[1].fn = "Rule.validate")
         \/ (~Idle /\ Len(stack) = 1 /\ Top.fn = "Rule.validate"
                   /\ Top.pc = "params" /\ Idle') )
       => rules' = rules]_vars

\* a call has failed its parameter check on a rule that still holds the
\* invalid values and the message of an earlier call
C28_Witness ==
    \E r \in DOMAIN rules :
       /\ Ended(r)
       /\ hist.params \notin {"", "none"}
       /\ ~rules[r].is_valid
       /\ rules[r].invalid_values # <<>>
       /\ rules[r].invalid_messages # <<>>

\* C29: the RuleSet's aggregate message collection only grows: no step of
\* any operation, RuleSet.compile() and a validate that ends valid
\* included, removes or changes an entry, and a validate call adds the
\* entry of a failing rule when it collects that rule's result.
C29_CollectionNeverCleared ==
    [][/\ Len(ruleset'.invalid_messages) >= Len(ruleset.invalid_messages)
       /\ SubSeq(ruleset'.invalid_messages, 1, Len(ruleset.invalid_messages))
             = ruleset.invalid_messages
       /\ (InRuleSet("collect") /\ ~rules[ruleset.rules[Top.i]].is_valid) =>
             Len(ruleset'.invalid_messages) = Len(ruleset.invalid_messages) + 1]_vars

\* a validate call that ended valid has added an entry to a collection that
\* still holds what an earlier call left
C29_Witness ==
    /\ InRuleSet("return")
    /\ ruleset.is_valid
    /\ Top.base >= 1
    /\ Len(ruleset.invalid_messages) > Top.base

\* the reference of rule r is still the indirection record it was
\* constructed with, both keys present: no compile() has resolved it
Unresolved(r) ==
    /\ rules[r].reference_value.t = "dict"
    /\ rules[r].reference_value.n = 1
    /\ rules[r].reference_value.s # ""

\* C30: validate checks its parameters before compile() resolves the
\* reference, so a validate call on a RegexRule or BetweenRule whose
\* reference is still the indirection record, the first call after
\* construction included, ends in the parameter check with the error of
\* the rule's reference check applied to the record; nothing is validated
\* against the attribute's value.
C30_IndirectionFailsReferenceCheck ==
    /\ \A r \in DOMAIN rules :
       ( /\ Ended(r)
         /\ rules[r].kind \in {"RegexRule", "BetweenRule"}
         /\ Unresolved(r)
         /\ rules[r].has_attr
         /\ (rules[r].array_ok \/ ~is_array(hist.value)) )
       => /\ exc.type = "TypeError"
          /\ hist.params = "TypeError"
          /\ rules[r].validated_value = Unset
    /\ \A i \in RuleFrames :
          (rules[stack[i].r].kind \in {"RegexRule", "BetweenRule"} /\ Unresolved(stack[i].r))
          => stack[i].pc = "params"

\* the first validate call on a freshly constructed BetweenRule with an
\* indirection whose attribute holds a well-formed pair has failed
C30_Witness ==
    \E r \in DOMAIN rules :
       /\ Ended(r)
       /\ rules[r].kind = "BetweenRule"
       /\ Unresolved(r)
       /\ refattr = ArrV(<<IntV(0), IntV(10)>>)
       /\ hist.value = IntV(5)
       /\ exc.type = "TypeError"


====
